---- MODULE Spec2Model ----
(***************************************************************************)
(* Model of utils/disco-detect.py (pelagos-data): the discontinuity        *)
(* detector's main(), from its argument loop to its return, and of         *)
(* auto_scrape() of VesselInfo/vessel_info/scrape.py.                      *)
(*                                                                         *)
(* Text is kept as text: every cell of the input is a string, int() and    *)
(* the WKT point parser are the table Number, and the output is a          *)
(* sequence of written lines.  Python's None is the string "None" for      *)
(* string-valued variables and the empty sequence for optional structured  *)
(* values (last_row, fieldnames), a present value v being <<v>>.           *)
(***************************************************************************)
EXTENDS Integers, Sequences, FiniteSets, TLC

\* ------------------------------------------------------------------------
\* Bounds of the model
\* ------------------------------------------------------------------------
MaxLines == 3       \* data rows of the input under Spec
MaxLinesCfg == 1    \* data rows of the input under SpecConfig
MaxLinesOpt == 2    \* lines of the input after the first under SpecOptions
MaxLinesTwice == 2  \* data rows of the input under SpecTwice
MaxRetry == 2       \* largest value of auto_scrape's retry under SpecScrape
MaxArgs == 3        \* arguments on the command line under SpecArgs
MaxLinesSeg == 5    \* data rows of the input under SpecSegments
MaxLinesOut == 2    \* data rows of the input under SpecStdout

\* ------------------------------------------------------------------------
\* Values
\* ------------------------------------------------------------------------
None == "None"

SecondsPerDay == 86400

MMSIs == {"111", "222"}
TimestampTexts == {"0", "3600", "88200"}
PositionTexts == {<<"0", "0">>, <<"3", "4">>}

\* int(text) and the coordinate parser of 'POINT (%s %s)'
Number ==
  ("0" :> 0) @@ ("3" :> 3) @@ ("4" :> 4) @@ ("3600" :> 3600) @@ ("88200" :> 88200)

\* column layouts of the input file
FullLayout == <<"mmsi", "timestamp", "longitude", "latitude">>
NoMmsiLayout == <<"timestamp", "longitude", "latitude">>
NoTimestampLayout == <<"mmsi", "longitude", "latitude">>
Layouts == {FullLayout, NoMmsiLayout, NoTimestampLayout}

\* a layout with a column the detector does not use
NameTexts == {"boat"}
ExtraLayout == <<"mmsi", "timestamp", "longitude", "latitude", "name">>

FullRecords ==
  {<<m, t, p[1], p[2], n>> :
     m \in MMSIs, t \in TimestampTexts, p \in PositionTexts, n \in NameTexts}

ColumnOf(name) == CHOOSE i \in 1..Len(ExtraLayout) : ExtraLayout[i] = name

\* a file of positions that were all reported at the same time, with a
\* column that names the snapshot they were taken from
SnapshotLayout == <<"mmsi", "timestamp", "longitude", "latitude", "snapshot">>
SnapshotLines == {<<m, "0", p[1], p[2], "s1">> : m \in MMSIs, p \in PositionTexts}

\* the data lines a file of the given layout can hold, as sequences of cells
DataLines ==
  [cols \in Layouts \cup {ExtraLayout, SnapshotLayout} |->
     IF cols = SnapshotLayout THEN SnapshotLines
     ELSE {[i \in 1..Len(cols) |-> r[ColumnOf(cols[i])]] : r \in FullRecords}]

\* the str a '-s mmsi,timestamp,longitude,latitude' leaves in input_schema, as
\* the characters csv.DictReader finds when it iterates over fieldnames
SchemaText ==
  <<"m", "m", "s", "i", ",", "t", "i", "m", "e", "s", "t", "a", "m", "p", ",",
    "l", "o", "n", "g", "i", "t", "u", "d", "e", ",",
    "l", "a", "t", "i", "t", "u", "d", "e">>

valid_output_products == {"frequency", "csv", "csv-no-schema", "newline"}
valid_input_file_formats == {"csv", "newline"}

\* ------------------------------------------------------------------------
\* State
\* ------------------------------------------------------------------------
VARIABLES
  \* configuration left by the argument parser
  arg_error, assign_srs_from_cmdl, time_threshold, distance_threshold,
  quiet_mode, output_product, input_file_format, input_file, output_file,
  overwrite_mode, write_mode, skip_lines, input_schema,
  \* the environment: file system and standard streams
  in_readable,      \* os.access(input_file, R_OK)
  out_isfile,       \* isfile(output_file)
  out_writable,     \* os.access(output_file, W_OK)
  outdir_writable,  \* os.access(dirname(output_file), W_OK)
  columns,          \* layout of the input's columns
  file_lines,       \* number of lines of the input, schema row included
  stdin_closed,     \* sys.stdin has been closed
  disk,             \* lines of the output file on disk before this run's writes
  earlier,          \* what an earlier run of the same command line left, if any
  \* the run
  pc, result, stdout, prog_total, i_f, o_f, reader, fieldnames, lines_read,
  consumed, last_row, discontinuity_counts, out,
  opens,            \* how often the run has entered a with block on each file
  \* vessel_info.scrape.auto_scrape: its keyword arguments and its locals
  retry, pause, keep_scraper, skip_scraper,
  site,             \* what the scraped sites do: "up" anything, "down" every call raises
  scrape_pc, scraper_i, attempt_num, scrape_result, calls, slept, stream,
  \* main's argument loop
  args,             \* the arguments main is called with, sys.argv[1:]
  arg_i,            \* i, the index of the argument the loop looks at next
  isatty            \* sys.stdin.isatty()

cfgvars == <<arg_error, assign_srs_from_cmdl, time_threshold, distance_threshold,
             output_product, input_file_format, input_file, output_file,
             overwrite_mode, write_mode, skip_lines, input_schema>>
envvars == <<in_readable, out_isfile, out_writable, outdir_writable, columns,
             file_lines, earlier>>
runvars == <<pc, result, stdout, prog_total, i_f, o_f, reader, fieldnames, lines_read,
             consumed, last_row, discontinuity_counts, out, opens>>
scrapecfg == <<retry, pause, keep_scraper, skip_scraper, site>>
scrapevars == <<scrapecfg, scrape_pc, scraper_i, attempt_num, scrape_result, calls,
                slept, stream>>
argvars == <<args, arg_i, isatty>>
discovars == <<cfgvars, quiet_mode, envvars, stdin_closed, disk, runvars, argvars>>
vars == <<cfgvars, quiet_mode, envvars, stdin_closed, disk, runvars, scrapevars,
          argvars>>

\* ------------------------------------------------------------------------
\* Helpers
\* ------------------------------------------------------------------------
Range(s) == {s[i] : i \in 1..Len(s)}

\* the orders in which a dict's keys can be iterated
Orderings(S) ==
  {s \in [1..Cardinality(S) -> S] : \A i, j \in 1..Cardinality(S) : i # j => s[i] # s[j]}

RECURSIVE SumOver(_, _)
SumOver(f, S) ==
  IF S = {} THEN 0
  ELSE LET k == CHOOSE x \in S : TRUE IN f[k] + SumOver(f, S \ {k})

\* a line written by ','.join(...) or by csv.DictWriter, and one written by json.dumps
CsvLine(cells) == [fmt |-> "csv", cells |-> cells]
JsonLine(row) == [fmt |-> "json", obj |-> row]

\* the cells of a row from the n-th on, as one text
RECURSIVE RestText(_, _)
RestText(cells, n) ==
  IF n > Len(cells) THEN ""
  ELSE cells[n] \o (IF n < Len(cells) THEN "," ELSE "") \o RestText(cells, n + 1)

\* csv.DictReader.next: dict(zip(fieldnames, row)), the fields past the end of a
\* short row set to restval (None), the cells past the end of the fieldnames
\* kept under restkey (None); of a repeated name the last one decides
DictZip(names, cells) ==
  LET named == [k \in Range(names) |->
                  LET last == CHOOSE i \in 1..Len(names) :
                                names[i] = k /\ \A j \in (i + 1)..Len(names) : names[j] # k
                  IN IF last <= Len(cells) THEN cells[last] ELSE None]
  IN IF Len(cells) > Len(names)
       THEN (None :> RestText(cells, Len(names) + 1)) @@ named
       ELSE named

\* osr.SpatialReference().SetFromUserInput raises RuntimeError on these
SRSResolves(srs) == srs = "EPSG:4326"

\* ------------------------------------------------------------------------
\* The argument loop (lines 226-361)
\* ------------------------------------------------------------------------
\* the texts a command line of the model is made of
Arguments ==
  {"--help", "-usage", "-lu", "-th", "-dh", "-sl", "-s", "-q",
   "-overwrite", "-wm", "-op", "-ff", "-a-srs", "-stdin", "-stdout",
   "-", "", "-bogus", "3", "CSV", "/in.csv", "/out.csv"}

\* a text as the sequence of its characters
Characters ==
  ("--help" :> <<"-", "-", "h", "e", "l", "p">>)
  @@ ("-usage" :> <<"-", "u", "s", "a", "g", "e">>)
  @@ ("-lu" :> <<"-", "l", "u">>)
  @@ ("-th" :> <<"-", "t", "h">>)
  @@ ("-dh" :> <<"-", "d", "h">>)
  @@ ("-sl" :> <<"-", "s", "l">>)
  @@ ("-s" :> <<"-", "s">>)
  @@ ("-q" :> <<"-", "q">>)
  @@ ("-overwrite" :> <<"-", "o", "v", "e", "r", "w", "r", "i", "t", "e">>)
  @@ ("-wm" :> <<"-", "w", "m">>)
  @@ ("-op" :> <<"-", "o", "p">>)
  @@ ("-ff" :> <<"-", "f", "f">>)
  @@ ("-a-srs" :> <<"-", "a", "-", "s", "r", "s">>)
  @@ ("-stdin" :> <<"-", "s", "t", "d", "i", "n">>)
  @@ ("-stdout" :> <<"-", "s", "t", "d", "o", "u", "t">>)
  @@ ("-" :> <<"-">>)
  @@ ("" :> <<>>)
  @@ ("-bogus" :> <<"-", "b", "o", "g", "u", "s">>)
  @@ ("3" :> <<"3">>)
  @@ ("CSV" :> <<"C", "S", "V">>)
  @@ ("/in.csv" :> <<"/", "i", "n", ".", "c", "s", "v">>)
  @@ ("/out.csv" :> <<"/", "o", "u", "t", ".", "c", "s", "v">>)

\* int(text) raises ValueError on a text that is no integer
IsIntText(text) == text \in DOMAIN Number

\* str.lower
Lower(text) == IF text = "CSV" THEN "csv" ELSE text

\* abspath(expanduser(arg)): a relative path is joined to the working directory
AbsPath(arg) == IF arg \in {"/in.csv", "/out.csv"} THEN arg ELSE "/cwd/" \o arg

\* (mutant) the help text is printed and 0 is returned
print_help_Zero == "return 0"

\* what 'return print_help()', 'return print_usage()' and
\* 'return print_long_usage()' make main return
print_help == "return 1"
print_usage == "return 1"
print_long_usage == "return 1"

\* the variables the loop assigns, at the start of an iteration
LoopState ==
  [i |-> arg_i, arg_error |-> arg_error, time_threshold |-> time_threshold,
   distance_threshold |-> distance_threshold, input_schema |-> input_schema,
   skip_lines |-> skip_lines, quiet_mode |-> quiet_mode,
   overwrite_mode |-> overwrite_mode, assign_srs_from_cmdl |-> assign_srs_from_cmdl,
   write_mode |-> write_mode, output_product |-> output_product,
   input_file_format |-> input_file_format, input_file |-> input_file,
   output_file |-> output_file, returned |-> <<>>, printed |-> <<>>]

\* (mutant) the handler leaves the index where it is
ArgumentError_Stay(c) ==
  [c EXCEPT !.arg_error = TRUE,
            !.printed = <<"ERROR: An argument has invalid parameters">>]

\* lines 358-361: except (IndexError, ValueError)
ArgumentError(c) ==
  [c EXCEPT !.i = @ + 1, !.arg_error = TRUE,
            !.printed = <<"ERROR: An argument has invalid parameters">>]

\* 'ERROR: Unrecognized argument' (lines 324-327 and 349-351)
Unrecognized(c) ==
  [c EXCEPT !.i = @ + 1, !.arg_error = TRUE,
            !.printed = <<"ERROR: Unrecognized argument">>]

\* one pass through the body of the while loop on the state c: the state
\* after it, what it printed and what it made main return, if anything
ParseOne(c) ==
  LET arg == args[c.i + 1]
      \* 'i += 2' is done before args[i - 1] is read
      taken == [c EXCEPT !.i = @ + 2]
      has == c.i + 2 <= Len(args)
      parameter == args[c.i + 2]
      \* lines 274-279, 287-289: int(args[i - 1])
      WithInt(field) ==
        IF has /\ IsIntText(parameter)
          THEN [taken EXCEPT ![field] = Number[parameter]]
          ELSE ArgumentError(taken)
      \* args[i - 1] kept as it is
      WithText(field, value) ==
        IF has THEN [taken EXCEPT ![field] = value] ELSE ArgumentError(taken)
  IN IF arg \in {"--help", "-help"}
       THEN [c EXCEPT !.returned = <<print_help>>, !.printed = <<"help">>]
     ELSE IF arg \in {"--usage", "-usage"}
       THEN [c EXCEPT !.returned = <<print_usage>>, !.printed = <<"usage">>]
     ELSE IF arg \in {"--long-usage", "-long-usage", "-lu"}
       THEN [c EXCEPT !.returned = <<print_long_usage>>,
                      !.printed = <<"usage", "options">>]
     ELSE IF arg \in {"-th", "-time-threshold"} THEN WithInt("time_threshold")
     ELSE IF arg \in {"-dh", "-distance-threshold"} THEN WithInt("distance_threshold")
     ELSE IF arg \in {"-s", "-schema", "-header"}
       THEN WithText("input_schema", <<Characters[parameter]>>)
     ELSE IF arg \in {"-sl", "-skip-lines"} THEN WithInt("skip_lines")
     ELSE IF arg = "-" /\ c.input_file = None /\ isatty
       THEN [c EXCEPT !.i = @ + 1, !.arg_error = TRUE,
                      !.printed = <<"ERROR: Trying to read from empty stdin">>]
     ELSE IF arg \in {"-q", "-quiet"}
       THEN [c EXCEPT !.i = @ + 1, !.quiet_mode = TRUE]
     ELSE IF arg \in {"-overwrite", "--overwrite"}
       THEN [c EXCEPT !.i = @ + 1, !.overwrite_mode = TRUE]
     ELSE IF arg \in {"-a-srs", "-assign-srs"}
       THEN WithText("assign_srs_from_cmdl", parameter)
     ELSE IF arg \in {"-wm", "-write-mode"} THEN WithText("write_mode", parameter)
     ELSE IF arg \in {"-op", "-output-product"}
       THEN WithText("output_product", Lower(parameter))
     ELSE IF arg \in {"-ff", "-file-format"}
       THEN WithText("input_file_format", parameter)
     ELSE IF arg = "-stdin" THEN [c EXCEPT !.i = @ + 1, !.input_file = "-"]
     ELSE IF arg = "-stdout" THEN [c EXCEPT !.i = @ + 1, !.output_file = "-"]
     ELSE IF Characters[arg] = <<>>
       THEN \* arg[0] of the empty string raises IndexError
            ArgumentError(c)
     ELSE IF Characters[arg][1] = "-" /\ arg # "-" THEN Unrecognized(c)
     ELSE IF c.input_file = None
       THEN [c EXCEPT !.i = @ + 1,
                      !.input_file = IF arg = "-" THEN arg ELSE AbsPath(arg)]
     ELSE IF c.output_file = None
       THEN [c EXCEPT !.i = @ + 1,
                      !.output_file = IF arg = "-" THEN arg ELSE AbsPath(arg)]
     ELSE Unrecognized(c)

\* main is entered: without arguments it prints the usage and returns
\* (lines 226-227; the script itself does the same on an empty sys.argv[1:],
\* lines 560-561), else it sets its defaults and enters the loop
EnterMain ==
  /\ pc = "main"
  /\ IF Len(args) = 0
       THEN pc' = "done" /\ result' = print_usage /\ stdout' = stdout \o <<"usage">>
       ELSE pc' = "parse" /\ UNCHANGED <<result, stdout>>
  /\ UNCHANGED <<cfgvars, quiet_mode, envvars, stdin_closed, disk, prog_total, i_f,
                 o_f, reader, fieldnames, lines_read, consumed, last_row,
                 discontinuity_counts, out, opens, scrapevars, argvars>>

\* one iteration of 'while i < len(args)'
ParseArg ==
  /\ pc = "parse"
  /\ arg_i < Len(args)
  /\ LET c == ParseOne(LoopState)
     IN /\ arg_i' = c.i
        /\ arg_error' = c.arg_error
        /\ time_threshold' = c.time_threshold
        /\ distance_threshold' = c.distance_threshold
        /\ input_schema' = c.input_schema
        /\ skip_lines' = c.skip_lines
        /\ quiet_mode' = c.quiet_mode
        /\ overwrite_mode' = c.overwrite_mode
        /\ assign_srs_from_cmdl' = c.assign_srs_from_cmdl
        /\ write_mode' = c.write_mode
        /\ output_product' = c.output_product
        /\ input_file_format' = c.input_file_format
        /\ input_file' = c.input_file
        /\ output_file' = c.output_file
        /\ stdout' = stdout \o c.printed
        /\ IF c.returned # <<>>
             THEN pc' = "done" /\ result' = c.returned[1]
             ELSE /\ pc' = IF c.i < Len(args) THEN "parse" ELSE "validate"
                  /\ result' = result
  /\ UNCHANGED <<envvars, stdin_closed, disk, prog_total, i_f, o_f, reader,
                 fieldnames, lines_read, consumed, last_row, discontinuity_counts,
                 out, opens, scrapevars, args, isatty>>

\* ------------------------------------------------------------------------
\* Validation (lines 367-426)
\* ------------------------------------------------------------------------
InputFileInvalid ==
  \/ input_file = None
  \/ input_file # "-" /\ ~in_readable

\* (mutant) an existing output file is accepted without -overwrite
OutputFileInvalid_NoOverwriteCheck ==
  \/ output_file = None
  \/ output_file # "-" /\ out_isfile /\ ~out_writable
  \/ output_file # "-" /\ ~out_isfile /\ ~outdir_writable

OutputFileInvalid ==
  \/ output_file = None
  \/ output_file # "-" /\ ~overwrite_mode /\ out_isfile
  \/ output_file # "-" /\ out_isfile /\ ~out_writable
  \/ output_file # "-" /\ ~out_isfile /\ ~outdir_writable

\* (mutant) the distance threshold is not checked
bail_NoDistanceCheck ==
  \/ arg_error
  \/ ~SRSResolves(assign_srs_from_cmdl)
  \/ ~(0 <= time_threshold)
  \/ output_product \notin valid_output_products
  \/ input_file_format \notin valid_input_file_formats
  \/ InputFileInvalid
  \/ OutputFileInvalid

bail ==
  \/ arg_error
  \/ ~SRSResolves(assign_srs_from_cmdl)
  \/ ~(0 <= time_threshold)
  \/ ~(0 <= distance_threshold)
  \/ output_product \notin valid_output_products
  \/ input_file_format \notin valid_input_file_formats
  \/ InputFileInvalid
  \/ OutputFileInvalid

ValidationMessages ==
  (IF arg_error THEN <<"ERROR: Did not successfully parse arguments">> ELSE <<>>)
  \o (IF ~SRSResolves(assign_srs_from_cmdl) THEN <<"Invalid assign SRS">> ELSE <<>>)
  \o (IF ~(0 <= time_threshold) THEN <<"ERROR: Invalid time threshold">> ELSE <<>>)
  \o (IF ~(0 <= distance_threshold) THEN <<"ERROR: Invalid distance threshold">> ELSE <<>>)
  \o (IF output_product \notin valid_output_products
        THEN <<"ERROR: Invalid output product">> ELSE <<>>)
  \o (IF input_file_format \notin valid_input_file_formats
        THEN <<"ERROR: Invalid input file format">> ELSE <<>>)
  \o (IF InputFileInvalid THEN <<"ERROR: input file">> ELSE <<>>)
  \o (IF OutputFileInvalid THEN <<"ERROR: output file">> ELSE <<>>)

Validate ==
  /\ pc = "validate"
  /\ stdout' = stdout \o ValidationMessages
  /\ IF bail
       THEN pc' = "done" /\ result' = "return 1"
       ELSE pc' = "prepare" /\ result' = result
  /\ UNCHANGED <<cfgvars, quiet_mode, envvars, stdin_closed, disk, prog_total, i_f,
                 o_f, reader, fieldnames, lines_read, consumed, last_row,
                 discontinuity_counts, out, opens, scrapevars, argvars>>

\* ------------------------------------------------------------------------
\* Prepare data (lines 432-456)
\* ------------------------------------------------------------------------
Prepare ==
  /\ pc = "prepare"
  /\ quiet_mode' = (quiet_mode \/ output_file = "-")
  /\ stdout' = IF quiet_mode' THEN stdout
               ELSE stdout \o <<"Input file:", "Output file:", "Schema:">>
  /\ IF ~quiet_mode' /\ output_file # "-"
       THEN \* the line count reads the whole input, and the with block closes it
            /\ prog_total' = file_lines - skip_lines
                               - (IF input_schema = <<>> THEN 1 ELSE 0)
            /\ stdin_closed' = (stdin_closed \/ input_file = "-")
            /\ opens' = [opens EXCEPT !.input = @ + 1]
       ELSE /\ prog_total' = 0
            /\ stdin_closed' = stdin_closed
            /\ opens' = opens
  /\ pc' = "open"
  /\ UNCHANGED <<cfgvars, envvars, disk, result, i_f, o_f, reader, fieldnames,
                 lines_read, consumed, last_row, discontinuity_counts, out,
                 scrapevars, argvars>>

\* ------------------------------------------------------------------------
\* Open the input, the output and the reader, write the schema (lines 462-483)
\* ------------------------------------------------------------------------
\* (mutant) an exception leaves the files as they are
Raise_Leaking(exc) ==
  /\ pc' = "done"
  /\ result' = exc
  /\ UNCHANGED <<i_f, o_f>>

\* an exception leaves main: both with blocks close what they opened
Raise(exc) ==
  /\ pc' = "done"
  /\ result' = exc
  /\ i_f' = IF i_f = "open" THEN "closed" ELSE i_f
  /\ o_f' = IF o_f = "open" THEN "closed" ELSE o_f

\* reader.fieldnames; None when csv.DictReader finds no first row
ReaderFieldnames ==
  IF input_file_format = "json" THEN <<columns>>
  ELSE IF input_schema # <<>> /\ input_schema[1] # <<>> THEN <<input_schema[1]>>
  ELSE IF file_lines = 0 THEN <<>>
  ELSE <<columns>>

\* lines the reader has taken from the input once it is constructed
ReaderStart ==
  IF input_file_format = "json" THEN 0
  ELSE IF input_schema # <<>> /\ input_schema[1] # <<>> THEN 0
  ELSE IF file_lines = 0 THEN 0
  ELSE 1

\* the modes of open() a command line of the model can name; any other text
\* of the model is no mode string
OpenModes == {"w", "a"}

\* (mutant) the file is opened without truncation in every mode
Truncated_Kept == disk

\* open(output_file, write_mode): 'w' truncates the file
Truncated == IF output_file # "-" /\ write_mode = "w" THEN <<>> ELSE disk

Open ==
  /\ pc = "open"
  /\ IF input_file = "-" /\ stdin_closed
       THEN \* entering a closed sys.stdin raises ValueError
            /\ pc' = "done" /\ result' = "ValueError"
            /\ UNCHANGED <<i_f, o_f, disk, reader, fieldnames, lines_read, out, opens>>
       ELSE IF output_file # "-" /\ write_mode \notin OpenModes
         THEN \* open(output_file, write_mode) raises ValueError, the input is closed
              /\ pc' = "done" /\ result' = "ValueError"
              /\ i_f' = "closed"
              /\ opens' = [opens EXCEPT !.input = @ + 1]
              /\ UNCHANGED <<o_f, disk, reader, fieldnames, lines_read, out>>
       ELSE /\ disk' = Truncated
            /\ opens' = [input |-> opens.input + 1, output |-> opens.output + 1]
            /\ IF input_file_format = "json" /\ file_lines = 0
                 THEN \* json.loads('') in NewlineJSONDictReader.__init__
                      /\ pc' = "done" /\ result' = "ValueError"
                      /\ i_f' = "closed" /\ o_f' = "closed"
                      /\ UNCHANGED <<reader, fieldnames, lines_read, out>>
               ELSE IF input_file_format \notin {"json", "csv"}
                 THEN /\ pc' = "done" /\ result' = "IOError"
                      /\ i_f' = "closed" /\ o_f' = "closed"
                      /\ UNCHANGED <<reader, fieldnames, lines_read, out>>
               ELSE /\ reader' = input_file_format
                    /\ fieldnames' = ReaderFieldnames
                    /\ lines_read' = ReaderStart
                    /\ IF output_product = "csv" /\ fieldnames' = <<>>
                         THEN \* ','.join(None)
                              /\ pc' = "done" /\ result' = "TypeError"
                              /\ i_f' = "closed" /\ o_f' = "closed"
                              /\ out' = out
                         ELSE /\ pc' = "scan" /\ result' = result
                              /\ i_f' = "open" /\ o_f' = "open"
                              /\ out' = IF output_product = "csv"
                                          THEN out \o <<CsvLine(fieldnames'[1])>>
                                          ELSE out
  /\ UNCHANGED <<cfgvars, quiet_mode, envvars, stdin_closed, stdout, prog_total,
                 consumed, last_row, discontinuity_counts, scrapevars, argvars>>

\* ------------------------------------------------------------------------
\* One iteration of the loop over the reader (lines 489-534)
\* ------------------------------------------------------------------------
\* td.seconds of process_timestamp - last_timestamp: a timedelta keeps its
\* days apart and its seconds within one day
Seconds(last, row) ==
  (Number[row["timestamp"]] - Number[last["timestamp"]]) % SecondsPerDay

\* line 512
TimeCheck(last, row) == Seconds(last, row) <= time_threshold

\* the square of last_point.Distance(process_point), a planar distance
Distance2(last, row) ==
  LET dx == Number[row["longitude"]] - Number[last["longitude"]]
      dy == Number[row["latitude"]] - Number[last["latitude"]]
  IN dx * dx + dy * dy

\* line 521: distance >= distance_threshold, the threshold a validated int >= 0
DistanceCheck(last, row) ==
  Distance2(last, row) >= distance_threshold * distance_threshold

\* (mutant) the last row is kept across a change of MMSI
GroupReset_Kept(last, row) == last

\* (mutant) the last row is dropped when the MMSI values are equal
GroupReset_Inverted(last, row) ==
  IF last # <<>> /\ DOMAIN last[1] # {} /\ row["mmsi"] = last[1]["mmsi"]
    THEN <<>> ELSE last

\* lines 496-499: last_row after the comparison of the MMSI values
GroupReset(last, row) ==
  IF last # <<>> /\ DOMAIN last[1] # {} /\ row["mmsi"] # last[1]["mmsi"]
    THEN <<>> ELSE last

\* lines 497-503: the comparison raises KeyError when it is evaluated on a row
\* without that field
MmsiKeyError(last, row) ==
  /\ last # <<>> /\ DOMAIN last[1] # {}
  /\ ("mmsi" \notin DOMAIN row \/ "mmsi" \notin DOMAIN last[1])

\* lines 509-517: the fields read of both rows when there is a last row; the
\* coordinates are read only once the time check has passed
ScanKeyError(last, row) ==
  /\ last # <<>>
  /\ \/ "timestamp" \notin DOMAIN last[1]
     \/ "timestamp" \notin DOMAIN row
     \/ /\ TimeCheck(last[1], row)
        /\ {"longitude", "latitude"} \ (DOMAIN last[1] \cap DOMAIN row) # {}

\* lines 506-521: the row is a discontinuity
Discontinuous(last, row) ==
  /\ last # <<>>
  /\ TimeCheck(last[1], row)
  /\ DistanceCheck(last[1], row)

\* (mutant) the count is set to 1 again for an MMSI already counted
CountUp_Restart(counts, mmsi) == (mmsi :> 1) @@ counts

\* lines 527-531
CountUp(counts, mmsi) ==
  IF mmsi \notin DOMAIN counts
    THEN (mmsi :> 1) @@ counts
    ELSE [counts EXCEPT ![mmsi] = @ + 1]

\* (mutant) the line written holds the names of the fields, not the row's values
RowLine_Names(row) == CsvLine(fieldnames[1])

\* lines 523-526: the line a row product writes for a flagged row
RowLine(row) ==
  IF output_product \in {"csv", "csv-no-schema"}
    THEN CsvLine([i \in 1..Len(fieldnames[1]) |-> row[fieldnames[1][i]]])
    ELSE JsonLine(row)

\* (mutant) the first row of a group stays the row to compare with
NextLast_Anchor(last, row) == IF last = <<>> THEN <<row>> ELSE last

\* line 534: last_row = row.copy()
NextLast(last, row) == <<row>>

\* the row the reader makes of a line
ReadRow(line) ==
  IF reader = "json" THEN DictZip(columns, line) ELSE DictZip(fieldnames[1], line)

\* a later run of the same command line opens the same input file: the reader
\* yields the rows it yielded to the earlier run
SameInput(row) ==
  IF earlier = <<>> THEN TRUE
  ELSE IF Len(consumed) >= Len(earlier[1].consumed) THEN FALSE
  ELSE row = earlier[1].consumed[Len(consumed) + 1]

ScanRow ==
  /\ pc = "scan"
  /\ lines_read < file_lines
  /\ \E line \in DataLines[columns] :
       LET row == ReadRow(line)
           last == IF MmsiKeyError(last_row, row) THEN last_row
                   ELSE GroupReset(last_row, row)
       IN /\ SameInput(row)
          /\ lines_read' = lines_read + 1
          /\ consumed' = Append(consumed, row)
          /\ IF MmsiKeyError(last_row, row)
               THEN \* print(row); print(last_row); return 1
                    /\ stdout' = (IF ~quiet_mode /\ output_file # "-"
                                    THEN stdout \o <<"progress">> ELSE stdout)
                                 \o <<"row", "last_row">>
                    /\ pc' = "done" /\ result' = "return 1"
                    /\ i_f' = "closed" /\ o_f' = "closed"
                    /\ UNCHANGED <<last_row, discontinuity_counts, out>>
             ELSE /\ stdout' = IF ~quiet_mode /\ output_file # "-"
                                 THEN stdout \o <<"progress">> ELSE stdout
                  /\ IF ScanKeyError(last, row)
                       THEN /\ Raise("KeyError")
                            /\ last_row' = last
                            /\ UNCHANGED <<discontinuity_counts, out>>
                       ELSE /\ UNCHANGED <<pc, result, i_f, o_f>>
                            /\ last_row' = NextLast(last, row)
                            /\ IF Discontinuous(last, row)
                                 THEN IF output_product = "frequency"
                                        THEN /\ discontinuity_counts' =
                                                  CountUp(discontinuity_counts, row["mmsi"])
                                             /\ out' = out
                                        ELSE /\ out' = Append(out, RowLine(row))
                                             /\ UNCHANGED discontinuity_counts
                                 ELSE UNCHANGED <<discontinuity_counts, out>>
  /\ UNCHANGED <<cfgvars, quiet_mode, envvars, stdin_closed, disk, prog_total,
                 reader, fieldnames, opens, scrapevars, argvars>>

\* ------------------------------------------------------------------------
\* The reader is exhausted: dump the frequencies, clean up, return (536-552)
\* ------------------------------------------------------------------------
\* (mutant) every key is written twice
FrequencyLines_Twice(order) ==
  <<CsvLine(<<"mmsi", "count">>)>>
  \o [i \in 1..(2 * Len(order)) |->
        CsvLine(<<order[(i + 1) \div 2],
                  ToString(discontinuity_counts[order[(i + 1) \div 2]])>>)]

\* csv.DictWriter(o_f, ['mmsi', 'count']): the header and one row per key, in
\* the order the dict yields its items
FrequencyLines(order) ==
  <<CsvLine(<<"mmsi", "count">>)>>
  \o [i \in 1..Len(order) |->
        CsvLine(<<order[i], ToString(discontinuity_counts[order[i]])>>)]

\* the order in which a dict yields its items is fixed by its keys and the
\* history of its insertions: a later run that built the same dict from the
\* same input iterates it as the earlier run did
SameOrder(order) ==
  IF earlier = <<>> THEN TRUE
  ELSE IF earlier[1].counts # discontinuity_counts \/ earlier[1].order = <<>> THEN TRUE
  ELSE order = earlier[1].order

Finish ==
  /\ pc = "scan"
  /\ lines_read = file_lines
  /\ IF reader = "json"
       THEN \* NewlineJSONDictReader.next at the end of the input: json.loads('')
            /\ Raise("ValueError")
            /\ UNCHANGED <<out, stdout>>
       ELSE /\ pc' = "done" /\ result' = "return 0"
            /\ i_f' = "closed" /\ o_f' = "closed"
            /\ \E order \in Orderings(DOMAIN discontinuity_counts) :
                 /\ SameOrder(order)
                 /\ out' = IF output_product = "frequency"
                             THEN out \o FrequencyLines(order) ELSE out
            /\ stdout' = IF quiet_mode THEN stdout ELSE stdout \o <<" - Done">>
  /\ UNCHANGED <<cfgvars, quiet_mode, envvars, stdin_closed, disk, prog_total,
                 reader, fieldnames, lines_read, consumed, last_row,
                 discontinuity_counts, opens, scrapevars, argvars>>

\* ------------------------------------------------------------------------
\* The same command line is run once more (lines 559-566)
\* ------------------------------------------------------------------------
EmptyDict == [k \in {} |-> 0]

\* the keys of the frequency table in the order they were written
WrittenOrder ==
  IF output_product = "frequency" /\ result = "return 0"
    THEN [i \in 1..(Len(out) - 1) |-> out[i + 1].cells[1]]
    ELSE <<>>

\* main has returned or raised; the process that follows starts main afresh on
\* the same arguments and input, and finds the output file the run left behind
RunAgain ==
  /\ pc = "done" /\ earlier = <<>>
  /\ output_file # "-" /\ input_file # "-"
  /\ earlier' = <<[consumed |-> consumed, counts |-> discontinuity_counts,
                   order |-> WrittenOrder, content |-> disk \o out,
                   result |-> result]>>
  /\ disk' = disk \o out
  /\ out_isfile' = (out_isfile \/ o_f # "unopened")
  /\ out_writable' = (out_writable \/ o_f # "unopened")
  /\ pc' = "validate" /\ result' = "running" /\ stdout' = <<>> /\ prog_total' = 0
  /\ i_f' = "unopened" /\ o_f' = "unopened" /\ reader' = None /\ fieldnames' = <<>>
  /\ lines_read' = 0 /\ consumed' = <<>> /\ last_row' = <<>>
  /\ discontinuity_counts' = EmptyDict /\ out' = <<>>
  /\ opens' = [input |-> 0, output |-> 0]
  /\ stdin_closed' = FALSE
  /\ UNCHANGED <<cfgvars, quiet_mode, in_readable, outdir_writable, columns,
                 file_lines, scrapevars, argvars>>

\* ------------------------------------------------------------------------
\* vessel_info.scrape.auto_scrape (scrape.py, lines 373-479)
\* ------------------------------------------------------------------------
\* MMSI.scraper_order
scraper_order == <<"marine_traffic", "vessel_finder">>

\* what one call of a scraper method can do: return None, return the vessel's
\* information, raise an Exception, raise an exception that is no Exception
\* (KeyboardInterrupt, SystemExit)
Outcomes == {"None", "result", "raise", "interrupt"}

\* the outcomes the sites allow
SiteOutcomes == IF site = "down" THEN {"raise"} ELSE Outcomes

\* the ints CPython keeps as shared objects; range() yields these objects for
\* the values among them and a new object for every other value
SmallInts == (-5)..256

\* a retry beyond the shared ints
BigRetry == 257

\* line 469, 'attempt_num is retry': the identity of two int objects
IsSame(a, b) == a = b /\ a \in SmallInts

\* the information the given attempt on the given scraper returns
Info(name, attempt) == name \o "#" \o ToString(attempt)

\* lines 436-443; <<>> is None, <<l>> the list l
do_scrape(name) ==
  IF keep_scraper = <<>> /\ skip_scraper = <<>> THEN TRUE
  ELSE IF keep_scraper # <<>> /\ name \in Range(keep_scraper[1]) THEN TRUE
  ELSE IF skip_scraper # <<>> /\ name \notin Range(skip_scraper[1]) THEN TRUE
  ELSE FALSE

\* (mutant) the attempts go on after a result
BreakAttempts_Never(outcome) == FALSE

\* lines 462-463: 'if result is not None: break'
BreakAttempts(outcome) == outcome = "result"

\* (mutant) the loop over the scrapers goes on after a result
BreakScrapers_Never == FALSE

\* lines 445-446: 'if result is not None: break'
BreakScrapers == scrape_result # None

\* lines 434-449: the head of the loop over the scrapers
ScrapeNext ==
  /\ scrape_pc = "for"
  /\ IF scraper_i > Len(scraper_order) \/ BreakScrapers
       THEN \* the scrapers are exhausted, or 'if result is not None: break'
            /\ scrape_pc' = "return"
            /\ UNCHANGED <<scraper_i, attempt_num>>
       ELSE IF do_scrape(scraper_order[scraper_i]) /\ retry >= 1
         THEN /\ scrape_pc' = "attempt" /\ attempt_num' = 1
              /\ UNCHANGED scraper_i
         ELSE /\ scraper_i' = scraper_i + 1
              /\ UNCHANGED <<scrape_pc, attempt_num>>
  /\ UNCHANGED <<discovars, scrapecfg, scrape_result, calls, slept, stream>>

\* lines 451-457: an attempt starts with its pause
Sleep ==
  /\ scrape_pc = "attempt"
  /\ slept' = Append(slept, IF pause = "random"
                              THEN "randint(pause_min, pause_max)" ELSE pause)
  /\ scrape_pc' = "call"
  /\ UNCHANGED <<discovars, scrapecfg, scraper_i, attempt_num, scrape_result, calls,
                 stream>>

\* lines 459-476: the call of the scraper and what follows from its outcome
Attempt ==
  /\ scrape_pc = "call"
  /\ slept' = slept
  /\ \E outcome \in SiteOutcomes :
       /\ calls' = Append(calls, [scraper |-> scraper_order[scraper_i],
                                  attempt |-> attempt_num, outcome |-> outcome])
       /\ scrape_result' =
            CASE outcome = "result" -> Info(scraper_order[scraper_i], attempt_num)
              [] outcome = "None" -> None
              [] outcome \in {"raise", "interrupt"} -> scrape_result
       /\ stream' = IF outcome = "raise"
                      THEN Append(stream, [scraper |-> scraper_order[scraper_i],
                                           attempt |-> attempt_num,
                                           failed |-> IsSame(attempt_num, retry)])
                      ELSE stream
       /\ IF outcome = "interrupt"
            THEN \* 'except Exception' lets it pass: auto_scrape is left
                 /\ scrape_pc' = "raised"
                 /\ UNCHANGED <<scraper_i, attempt_num>>
            ELSE IF BreakAttempts(outcome) \/ attempt_num >= retry
            THEN /\ scraper_i' = scraper_i + 1 /\ scrape_pc' = "for"
                 /\ UNCHANGED attempt_num
            ELSE /\ attempt_num' = attempt_num + 1 /\ scrape_pc' = "attempt"
                 /\ UNCHANGED scraper_i
  /\ UNCHANGED <<discovars, scrapecfg>>

\* line 479: return result
ScrapeReturn ==
  /\ scrape_pc = "return"
  /\ scrape_pc' = "returned"
  /\ UNCHANGED <<discovars, scrapecfg, scraper_i, attempt_num, scrape_result, calls,
                 slept, stream>>

\* ------------------------------------------------------------------------
\* Specifications
\* ------------------------------------------------------------------------

\* the argument loop is over; the command line it went through is left out,
\* the configuration stands for it
ArgsParsed == args = <<"...">> /\ arg_i = 1 /\ isatty = FALSE

\* main after its argument loop, nothing validated or opened yet
InitRun ==
  /\ pc = "validate" /\ result = "running" /\ stdout = <<>> /\ prog_total = 0
  /\ i_f = "unopened" /\ o_f = "unopened" /\ reader = None /\ fieldnames = <<>>
  /\ lines_read = 0 /\ consumed = <<>> /\ last_row = <<>>
  /\ discontinuity_counts = EmptyDict /\ out = <<>>
  /\ opens = [input |-> 0, output |-> 0]
  /\ stdin_closed = FALSE
  /\ ArgsParsed

\* auto_scrape is not running
ScrapeIdle ==
  /\ retry = 0 /\ pause = "1" /\ keep_scraper = <<>> /\ skip_scraper = <<>>
  /\ site = "up"
  /\ scrape_pc = "idle" /\ scraper_i = 0 /\ attempt_num = 0
  /\ scrape_result = None /\ calls = <<>> /\ slept = <<>> /\ stream = <<>>

\* a valid configuration on regular files: the scan with every product,
\* threshold and layout
Init ==
  /\ InitRun /\ ScrapeIdle /\ earlier = <<>>
  /\ arg_error = FALSE /\ assign_srs_from_cmdl = "EPSG:4326"
  /\ time_threshold \in {0, 3600} /\ distance_threshold \in {5, 6}
  /\ quiet_mode \in BOOLEAN /\ output_product \in valid_output_products
  /\ input_file_format = "csv" /\ input_file = "/in.csv" /\ output_file = "/out.csv"
  /\ overwrite_mode = FALSE /\ write_mode = "w" /\ skip_lines = 0
  /\ input_schema = <<>>
  /\ in_readable = TRUE /\ out_isfile = FALSE /\ out_writable = FALSE
  /\ outdir_writable = TRUE /\ disk = <<>>
  /\ columns \in Layouts
  /\ file_lines \in 0..(MaxLines + 1)

Next == Validate \/ Prepare \/ Open \/ ScanRow \/ Finish

Spec == Init /\ [][Next]_vars

\* a wide configuration, valid or not, on files and on the standard streams,
\* over a short input
InitConfig ==
  /\ InitRun /\ ScrapeIdle /\ earlier = <<>>
  /\ arg_error \in BOOLEAN /\ assign_srs_from_cmdl \in {"EPSG:4326", "EPSG:bogus"}
  /\ time_threshold \in {-1, 3600} /\ distance_threshold \in {-1, 5}
  /\ quiet_mode \in BOOLEAN /\ output_product \in valid_output_products \cup {"bogus"}
  /\ input_file_format \in {"csv", "newline", "json"}
  /\ input_file \in {None, "-", "/in.csv"} /\ output_file \in {None, "-", "/out.csv"}
  /\ overwrite_mode \in BOOLEAN /\ write_mode \in {"w", "a"} /\ skip_lines = 0
  /\ input_schema = <<>>
  /\ in_readable \in BOOLEAN /\ (input_file # "/in.csv" => ~in_readable)
  /\ out_isfile \in BOOLEAN /\ (output_file # "/out.csv" => ~out_isfile)
  /\ out_writable \in BOOLEAN /\ (~out_isfile => ~out_writable)
  /\ outdir_writable \in BOOLEAN /\ (output_file # "/out.csv" => ~outdir_writable)
  /\ disk = IF out_isfile THEN <<CsvLine(<<"old">>)>> ELSE <<>>
  /\ columns = FullLayout
  /\ file_lines \in 0..(MaxLinesCfg + 1)

SpecConfig == InitConfig /\ [][Next]_vars

\* a valid configuration on regular files with the options of the reader: an
\* explicit schema or none, lines to skip or none, an input with a column the
\* detector does not use
InitOptions ==
  /\ InitRun /\ ScrapeIdle /\ earlier = <<>>
  /\ arg_error = FALSE /\ assign_srs_from_cmdl = "EPSG:4326"
  /\ time_threshold \in {0, 3600} /\ distance_threshold \in {4, 5}
  /\ quiet_mode = TRUE /\ output_product \in valid_output_products
  /\ input_file_format = "csv" /\ input_file = "/in.csv" /\ output_file = "/out.csv"
  /\ overwrite_mode = FALSE /\ write_mode = "w" /\ skip_lines \in {0, 1}
  /\ input_schema \in {<<>>, <<SchemaText>>}
  /\ in_readable = TRUE /\ out_isfile = FALSE /\ out_writable = FALSE
  /\ outdir_writable = TRUE /\ disk = <<>>
  /\ columns \in {FullLayout, ExtraLayout}
  /\ file_lines \in 0..(MaxLinesOpt + 1)

SpecOptions == InitOptions /\ [][Next]_vars

\* a valid command line on regular files, run twice: with and without an
\* output file left by something else, truncating or appending
InitTwice ==
  /\ InitRun /\ ScrapeIdle /\ earlier = <<>>
  /\ arg_error = FALSE /\ assign_srs_from_cmdl = "EPSG:4326"
  /\ time_threshold = 3600 /\ distance_threshold = 5
  /\ quiet_mode \in BOOLEAN /\ output_product \in valid_output_products
  /\ input_file_format = "csv" /\ input_file = "/in.csv" /\ output_file = "/out.csv"
  /\ overwrite_mode \in BOOLEAN /\ write_mode \in {"w", "a"} /\ skip_lines = 0
  /\ input_schema = <<>>
  /\ in_readable = TRUE /\ out_isfile \in BOOLEAN /\ out_writable = out_isfile
  /\ outdir_writable = TRUE
  /\ disk = IF out_isfile THEN <<CsvLine(<<"old">>)>> ELSE <<>>
  /\ columns \in {FullLayout, NoMmsiLayout}
  /\ file_lines \in 0..(MaxLinesTwice + 1)

\* the detector is not running: main's defaults, nothing on the command line
DiscoIdle ==
  /\ arg_error = FALSE /\ assign_srs_from_cmdl = "EPSG:4326"
  /\ time_threshold = 3600 /\ distance_threshold = 1
  /\ quiet_mode = FALSE /\ output_product = "csv" /\ input_file_format = "csv"
  /\ input_file = None /\ output_file = None
  /\ overwrite_mode = FALSE /\ write_mode = "w" /\ skip_lines = 0
  /\ input_schema = <<>>
  /\ in_readable = FALSE /\ out_isfile = FALSE /\ out_writable = FALSE
  /\ outdir_writable = FALSE /\ disk = <<>> /\ columns = FullLayout
  /\ file_lines = 0 /\ earlier = <<>> /\ stdin_closed = FALSE
  /\ pc = "idle" /\ result = "running" /\ stdout = <<>> /\ prog_total = 0
  /\ i_f = "unopened" /\ o_f = "unopened" /\ reader = None /\ fieldnames = <<>>
  /\ lines_read = 0 /\ consumed = <<>> /\ last_row = <<>>
  /\ discontinuity_counts = EmptyDict /\ out = <<>>
  /\ opens = [input |-> 0, output |-> 0]
  /\ ArgsParsed

\* main called with a command line, on an input file of a schema row and one
\* data row that can be read and an output file that does not exist yet
InitArgs ==
  /\ ScrapeIdle /\ earlier = <<>>
  /\ args \in UNION {[1..n -> Arguments] : n \in 0..MaxArgs}
  /\ arg_i = 0 /\ isatty \in BOOLEAN
  /\ arg_error = FALSE /\ assign_srs_from_cmdl = "EPSG:4326"
  /\ time_threshold = 3600 /\ distance_threshold = 1
  /\ quiet_mode = FALSE /\ output_product = "csv" /\ input_file_format = "csv"
  /\ input_file = None /\ output_file = None
  /\ overwrite_mode = FALSE /\ write_mode = "w" /\ skip_lines = 0
  /\ input_schema = <<>>
  /\ in_readable = TRUE /\ out_isfile = FALSE /\ out_writable = FALSE
  /\ outdir_writable = TRUE /\ disk = <<>> /\ columns = FullLayout
  /\ file_lines = 2 /\ stdin_closed = FALSE
  /\ pc = "main" /\ result = "running" /\ stdout = <<>> /\ prog_total = 0
  /\ i_f = "unopened" /\ o_f = "unopened" /\ reader = None /\ fieldnames = <<>>
  /\ lines_read = 0 /\ consumed = <<>> /\ last_row = <<>>
  /\ discontinuity_counts = EmptyDict /\ out = <<>>
  /\ opens = [input |-> 0, output |-> 0]

NextArgs == EnterMain \/ ParseArg \/ Validate \/ Prepare \/ Open \/ ScanRow \/ Finish

SpecArgs == InitArgs /\ [][NextArgs]_vars

\* a valid configuration on regular files over a longer input of few distinct
\* lines, in which the rows of a vessel can come in several separate runs
InitSegments ==
  /\ InitRun /\ ScrapeIdle /\ earlier = <<>>
  /\ arg_error = FALSE /\ assign_srs_from_cmdl = "EPSG:4326"
  /\ time_threshold = 3600 /\ distance_threshold = 5
  /\ quiet_mode \in BOOLEAN /\ output_product \in valid_output_products
  /\ input_file_format = "csv" /\ input_file = "/in.csv" /\ output_file = "/out.csv"
  /\ overwrite_mode = FALSE /\ write_mode = "w" /\ skip_lines = 0
  /\ input_schema = <<>>
  /\ in_readable = TRUE /\ out_isfile = FALSE /\ out_writable = FALSE
  /\ outdir_writable = TRUE /\ disk = <<>>
  /\ columns = SnapshotLayout
  /\ file_lines \in 0..(MaxLinesSeg + 1)

SpecSegments == InitSegments /\ [][Next]_vars

\* a valid configuration that writes its product to the standard output, from
\* a file or from the standard input, over every layout
InitStdout ==
  /\ InitRun /\ ScrapeIdle /\ earlier = <<>>
  /\ arg_error = FALSE /\ assign_srs_from_cmdl = "EPSG:4326"
  /\ time_threshold \in {0, 3600} /\ distance_threshold = 5
  /\ quiet_mode \in BOOLEAN /\ output_product \in valid_output_products
  /\ input_file_format = "csv" /\ input_file \in {"-", "/in.csv"}
  /\ output_file = "-"
  /\ overwrite_mode = FALSE /\ write_mode = "w" /\ skip_lines = 0
  /\ input_schema = <<>>
  /\ in_readable = (input_file = "/in.csv") /\ out_isfile = FALSE
  /\ out_writable = FALSE /\ outdir_writable = FALSE /\ disk = <<>>
  /\ columns \in Layouts
  /\ file_lines \in 0..(MaxLinesOut + 1)

SpecStdout == InitStdout /\ [][Next]_vars

\* the lists a caller passes as keep_scraper or skip_scraper
ScraperLists ==
  {<<"marine_traffic">>, <<"vessel_finder">>, <<"marine_traffic", "vessel_finder">>}

\* auto_scrape entered with its keyword arguments, 'result = None' done
InitScrape ==
  /\ DiscoIdle
  /\ \/ retry \in 0..MaxRetry /\ site = "up"
     \/ retry = BigRetry /\ site = "down"
  /\ pause \in {"random", "1"}
  /\ keep_scraper \in {<<>>} \cup {<<l>> : l \in ScraperLists}
  /\ skip_scraper \in {<<>>} \cup {<<l>> : l \in ScraperLists}
  /\ scrape_pc = "for" /\ scraper_i = 1 /\ attempt_num = 0
  /\ scrape_result = None /\ calls = <<>> /\ slept = <<>> /\ stream = <<>>

NextScrape == ScrapeNext \/ Sleep \/ Attempt \/ ScrapeReturn

SpecScrape == InitScrape /\ [][NextScrape]_vars

NextTwice == Validate \/ Prepare \/ Open \/ ScanRow \/ Finish \/ RunAgain

SpecTwice == InitTwice /\ [][NextTwice]_vars

\* ------------------------------------------------------------------------
\* What the claims speak of
\* ------------------------------------------------------------------------
Last(s) == s[Len(s)]

Abs(x) == IF x < 0 THEN -x ELSE x

\* the rows a row product has written, the schema line of 'csv' left out
DataRowsOut == IF output_product = "csv" /\ out # <<>> THEN Tail(out) ELSE out

CountFor(m) ==
  IF m \in DOMAIN discontinuity_counts THEN discontinuity_counts[m] ELSE 0

\* flagged events so far, in whichever product is active
NumEvents ==
  IF output_product = "frequency"
    THEN SumOver(discontinuity_counts, DOMAIN discontinuity_counts)
    ELSE Len(DataRowsOut)

\* the step reads one more record, r, whose predecessor in the input is p
ReadsRecord == Len(consumed') = Len(consumed) + 1
HasRequiredFields(r) ==
  {"mmsi", "timestamp", "longitude", "latitude"} \subseteq DOMAIN r

\* the time gap of the specification: |timestamp(r) - timestamp(p)|, whole seconds
TimeGap(p, r) == Abs(Number[r["timestamp"]] - Number[p["timestamp"]])

\* the step emits exactly one event, and it is the record r
EmitsOne(r) ==
  IF output_product = "frequency"
    THEN /\ out' = out
         /\ DOMAIN discontinuity_counts' = DOMAIN discontinuity_counts \cup {r["mmsi"]}
         /\ \A m \in DOMAIN discontinuity_counts' :
              discontinuity_counts'[m] = CountFor(m) + (IF m = r["mmsi"] THEN 1 ELSE 0)
    ELSE /\ out' = Append(out, RowLine(r))
         /\ discontinuity_counts' = discontinuity_counts

EmitsNothing == out' = out /\ discontinuity_counts' = discontinuity_counts

\* C1: a consecutive same-mmsi pair with |dt| <= time_threshold and distance >=
\* distance_threshold makes the scan emit exactly one event, the later record,
\* also when the later record's timestamp is the smaller one.
C1_QualifyingPairEmitsLater ==
  [][(/\ ReadsRecord /\ consumed # <<>>
      /\ HasRequiredFields(Last(consumed)) /\ HasRequiredFields(Last(consumed'))
      /\ Last(consumed)["mmsi"] = Last(consumed')["mmsi"]
      /\ TimeGap(Last(consumed), Last(consumed')) <= time_threshold
      /\ DistanceCheck(Last(consumed), Last(consumed')))
     => EmitsOne(Last(consumed'))]_vars

\* C2: a consecutive same-mmsi pair whose gap |dt| is greater than
\* time_threshold emits no event, whatever the distance and however large the
\* gap, one day or more included.
C2_LargeGapEmitsNothing ==
  [][(/\ ReadsRecord /\ consumed # <<>>
      /\ HasRequiredFields(Last(consumed)) /\ HasRequiredFields(Last(consumed'))
      /\ Last(consumed)["mmsi"] = Last(consumed')["mmsi"]
      /\ TimeGap(Last(consumed), Last(consumed')) > time_threshold)
     => EmitsNothing]_vars

\* C3: when two consecutive records differ in mmsi, the second one is neither
\* flagged nor counted, even where its timestamp and coordinates would pass
\* both threshold tests against the record before it.
C3_GroupChangeNeverFlags ==
  [][(/\ ReadsRecord /\ consumed # <<>>
      /\ "mmsi" \in DOMAIN Last(consumed) /\ "mmsi" \in DOMAIN Last(consumed')
      /\ Last(consumed)["mmsi"] # Last(consumed')["mmsi"])
     => EmitsNothing]_vars

\* a group change between two records that pass both threshold tests has been
\* processed and nothing was flagged
C3_Witness ==
  /\ pc = "scan" /\ Len(consumed) = 2
  /\ HasRequiredFields(consumed[1]) /\ HasRequiredFields(consumed[2])
  /\ consumed[1]["mmsi"] # consumed[2]["mmsi"]
  /\ TimeCheck(consumed[1], consumed[2])
  /\ DistanceCheck(consumed[1], consumed[2])
  /\ last_row = <<consumed[2]>>
  /\ NumEvents = 0

\* the record read by this step opens a group: it is the first of the input or
\* its mmsi differs from the record before it
StartsGroup ==
  \/ consumed = <<>>
  \/ /\ "mmsi" \in DOMAIN Last(consumed) /\ "mmsi" \in DOMAIN Last(consumed')
     /\ Last(consumed)["mmsi"] # Last(consumed')["mmsi"]

\* C4: a group of a single record never produces an event, in any product: the
\* record that opens a group emits nothing when it is read, and whatever a
\* later step emits is the record that step reads, never an earlier one.
C4_SingleRecordGroupNeverEmits ==
  [][ReadsRecord =>
       /\ StartsGroup => EmitsNothing
       /\ EmitsNothing \/ EmitsOne(Last(consumed'))]_vars

\* a run over three records whose middle one is a group of its own, each pair
\* passing both threshold tests, has ended without an event
C4_Witness ==
  /\ pc = "done" /\ result = "return 0" /\ Len(consumed) = 3
  /\ \A i \in 1..3 : HasRequiredFields(consumed[i])
  /\ consumed[1]["mmsi"] # consumed[2]["mmsi"]
  /\ consumed[2]["mmsi"] # consumed[3]["mmsi"]
  /\ \A i \in 1..2 : TimeCheck(consumed[i], consumed[i + 1])
                     /\ DistanceCheck(consumed[i], consumed[i + 1])
  /\ NumEvents = 0

\* the rows flagged by the loop over rows[i..] entered with the given last row;
\* an exception or the return of 1 ends the loop
RECURSIVE Flagged(_, _, _)
Flagged(rows, i, last) ==
  IF i > Len(rows) \/ MmsiKeyError(last, rows[i]) THEN <<>>
  ELSE IF ScanKeyError(GroupReset(last, rows[i]), rows[i]) THEN <<>>
  ELSE (IF Discontinuous(GroupReset(last, rows[i]), rows[i])
          THEN <<rows[i]>> ELSE <<>>)
       \o Flagged(rows, i + 1, <<rows[i]>>)

NumFlaggedWith(rows, m) ==
  Cardinality({i \in 1..Len(rows) : rows[i]["mmsi"] = m})

\* C5: on the same input and thresholds the frequency product's counts are,
\* identifier by identifier and in their sum, the numbers of rows the row
\* products emit: the row products write exactly the flagged rows of the input
\* read so far, the frequency product holds exactly their numbers per mmsi,
\* and a completed frequency run writes those numbers.
C5_FrequencyMatchesRows ==
  LET flagged == Flagged(consumed, 1, <<>>)
      counted == {m \in MMSIs : NumFlaggedWith(flagged, m) > 0}
  IN IF output_product = "frequency"
       THEN /\ DOMAIN discontinuity_counts = counted
            /\ \A m \in counted :
                 discontinuity_counts[m] = NumFlaggedWith(flagged, m)
            /\ NumEvents = Len(flagged)
            /\ (pc = "done" /\ result = "return 0") =>
                 /\ Len(out) = 1 + Cardinality(counted)
                 /\ {out[i] : i \in 2..Len(out)} =
                      {CsvLine(<<m, ToString(NumFlaggedWith(flagged, m))>>) : m \in counted}
       ELSE output_product \in valid_output_products =>
              DataRowsOut = [i \in 1..Len(flagged) |-> RowLine(flagged[i])]

\* a completed frequency run that counted two events for one identifier
C5_Witness ==
  /\ pc = "done" /\ result = "return 0" /\ output_product = "frequency"
  /\ \E m \in DOMAIN discontinuity_counts : discontinuity_counts[m] = 2
  /\ Len(out) = 2

\* C6: a record without the mmsi field or without the timestamp field makes the
\* run fail, wherever it stands, the only record of the input included.
C6_MissingFieldFailsRun ==
  (/\ pc = "done"
   /\ \E i \in 1..Len(consumed) :
        "mmsi" \notin DOMAIN consumed[i] \/ "timestamp" \notin DOMAIN consumed[i])
  => result # "return 0"

\* the configuration errors of the specification
ConfigError ==
  \/ arg_error
  \/ time_threshold < 0 \/ distance_threshold < 0
  \/ output_product \notin {"csv", "csv-no-schema", "newline", "frequency"}
  \/ input_file_format \notin {"csv", "newline"}
  \/ assign_srs_from_cmdl # "EPSG:4326"
  \/ input_file = None \/ (input_file = "/in.csv" /\ ~in_readable)
  \/ output_file = None
  \/ /\ output_file = "/out.csv"
     /\ \/ out_isfile /\ ~overwrite_mode
        \/ out_isfile /\ ~out_writable
        \/ ~out_isfile /\ ~outdir_writable

\* C7: every configuration error makes main return 1 before the scan starts:
\* the output is neither opened nor written, the output file on disk is as it
\* was, and no line of the input is read.
C7_ConfigErrorReturnsBeforeScan ==
  (ConfigError /\ pc # "validate") =>
    /\ pc = "done" /\ result = "return 1"
    /\ i_f = "unopened" /\ o_f = "unopened" /\ ~stdin_closed
    /\ out = <<>> /\ disk = (IF out_isfile THEN <<CsvLine(<<"old">>)>> ELSE <<>>)
    /\ reader = None /\ lines_read = 0 /\ consumed = <<>>

\* main has returned 1 on a configuration whose only error is the negative
\* distance threshold, over an existing output file it may overwrite
C7_Witness ==
  /\ pc = "done" /\ result = "return 1"
  /\ distance_threshold < 0 /\ time_threshold >= 0 /\ ~arg_error
  /\ assign_srs_from_cmdl = "EPSG:4326" /\ output_product = "csv"
  /\ input_file_format = "csv" /\ input_file = "/in.csv" /\ in_readable
  /\ output_file = "/out.csv" /\ out_isfile /\ overwrite_mode /\ out_writable
  /\ disk # <<>> /\ o_f = "unopened"

\* C8: a tabular input of the schema row alone makes the run return 0, the
\* output being the header line for 'csv' and empty for the other products.
C8_SchemaOnlyInput ==
  (/\ pc = "done" /\ ~ConfigError
   /\ input_file_format = "csv" /\ input_schema = <<>> /\ file_lines = 1)
  => /\ result = "return 0"
     /\ out = IF output_product = "csv" THEN <<CsvLine(columns)>> ELSE <<>>

\* C9: a completely empty input without an explicit schema makes the run fail,
\* whichever product is selected.
C9_EmptyInputFails ==
  (pc = "done" /\ input_schema = <<>> /\ file_lines = 0) => result # "return 0"

\* C10: a format selector that passes validation leads to a scan with the
\* reader of that format, never to an abort for an undetermined format.
C10_ValidatedFormatIsRead ==
  /\ result # "IOError"
  /\ pc = "scan" =>
       reader = (IF input_file_format = "newline" THEN "json" ELSE "csv")

\* C11: whatever the combination of a file or the standard input, a file or
\* the standard output, and the progress display on or off, a run on a valid
\* configuration over a tabular input with its schema row completes, having
\* read every record exactly once; it never enters a stream that was closed.
C11_EveryStreamCombinationCompletes ==
  (/\ pc = "done" /\ ~ConfigError
   /\ input_file_format = "csv" /\ input_schema = <<>> /\ file_lines >= 1)
  => /\ result = "return 0"
     /\ lines_read = file_lines
     /\ Len(consumed) = file_lines - 1

\* the field names of the configured schema: the names of the explicit schema
\* where one is given, else the first line of the input
RECURSIVE SplitFrom(_, _, _)
SplitFrom(chars, i, word) ==
  IF i > Len(chars) THEN <<word>>
  ELSE IF chars[i] = "," THEN <<word>> \o SplitFrom(chars, i + 1, "")
  ELSE SplitFrom(chars, i + 1, word \o chars[i])

SchemaNames ==
  IF input_schema # <<>> THEN SplitFrom(input_schema[1], 1, "") ELSE columns

\* the values of a record in the order of the given names
ValuesOf(row, names) == CsvLine([i \in 1..Len(names) |-> row[names[i]]])

\* C12: product 'csv' writes the header line of all schema field names exactly
\* once, before any data row; 'csv' and 'csv-no-schema' write every flagged
\* record as its own values in schema order, the fields the detector does not
\* use included and unmodified; 'csv-no-schema' writes no header line.
C12_HeaderOnceThenFlaggedRows ==
  LET flagged == Flagged(consumed, 1, <<>>)
      rows == [i \in 1..Len(flagged) |-> ValuesOf(flagged[i], SchemaNames)]
  IN IF /\ o_f # "unopened" /\ fieldnames # <<>>
        /\ output_product \in {"csv", "csv-no-schema"}
    THEN out = (IF output_product = "csv" THEN <<CsvLine(SchemaNames)>> ELSE <<>>)
               \o rows
    ELSE TRUE

\* C13: product 'frequency' writes nothing while records are scanned, and
\* nothing when the scan is aborted; a completed run writes the summary table
\* after the last record: under its header exactly one line for each mmsi with
\* at least one flagged event, holding the mmsi and its final count, which is
\* at least 1, and no line for an mmsi without a flagged event.
C13_FrequencyWrittenAtEnd ==
  LET flagged == Flagged(consumed, 1, <<>>)
      final(m) == NumFlaggedWith(flagged, m)
  IN output_product = "frequency" =>
       IF pc = "done" /\ result = "return 0"
         THEN /\ lines_read = file_lines
              /\ out # <<>> /\ out[1] = CsvLine(<<"mmsi", "count">>)
              /\ \A m \in MMSIs :
                   Cardinality({i \in 2..Len(out) : out[i].cells[1] = m}) =
                     (IF final(m) >= 1 THEN 1 ELSE 0)
              /\ \A i \in 2..Len(out) :
                   /\ final(out[i].cells[1]) >= 1
                   /\ out[i] = CsvLine(<<out[i].cells[1], ToString(final(out[i].cells[1]))>>)
         ELSE out = <<>>

\* a completed frequency run over records of two identifiers, one of them
\* flagged once and the other never: the table has the one line
C13_Witness ==
  /\ pc = "done" /\ result = "return 0" /\ output_product = "frequency"
  /\ columns = FullLayout
  /\ {consumed[i]["mmsi"] : i \in 1..Len(consumed)} = MMSIs
  /\ Len(out) = 2 /\ out[2].cells[2] = "1"

\* the lines of the output file once the run has ended
FileContent == disk \o out

\* C14: with append mode off, a second run of the same command line on the
\* same input leaves an output file with the same lines as the first, and,
\* allowed to overwrite, ends as the first did; nothing of what an earlier run
\* or anything else had left in the output file is in what a run writes.
C14_SecondRunSameOutput ==
  (pc = "done" /\ write_mode = "w") =>
    /\ o_f # "unopened" => FileContent = out
    /\ earlier # <<>> =>
         /\ FileContent = earlier[1].content
         /\ overwrite_mode => result = earlier[1].result

\* the second run has completed over the file the first run left with a
\* header and a flagged row, and the file holds the same two lines
C14_Witness ==
  /\ pc = "done" /\ result = "return 0" /\ write_mode = "w"
  /\ earlier # <<>> /\ Len(earlier[1].content) = 2
  /\ output_product = "csv" /\ o_f = "closed" /\ out_isfile
  /\ out = earlier[1].content

\* C15: the input and the output are each acquired once for the run, and no
\* exit path of the scan leaves either of them open.
C15_AcquiredOnceClosedOnExit ==
  /\ opens.input <= 1 /\ opens.output <= 1
  /\ pc = "done" => (i_f # "open" /\ o_f # "open")

\* the run has passed the validation and, showing its progress, counted the
\* lines of the input
CountsLines ==
  /\ ~quiet_mode /\ output_file # "-"
  /\ pc \notin {"validate", "prepare"} /\ ~bail

\* C15 (amended): the output is acquired at most once and the input at most
\* once for the scan; a run that shows its progress has acquired the input
\* once more before, for the line count; a file is open only after it was
\* acquired, and no exit path leaves the input or the output open: the end of
\* the input, the return of 1 on a row without mmsi, and every exception.
C15_ClosedOnEveryExit ==
  /\ opens.output <= 1
  /\ opens.input <= 1 + (IF CountsLines THEN 1 ELSE 0)
  /\ pc \in {"scan", "done"} => opens.input >= (IF CountsLines THEN 1 ELSE 0)
  /\ i_f = "open" => opens.input >= 1 + (IF CountsLines THEN 1 ELSE 0)
  /\ o_f = "open" => opens.output = 1
  /\ pc = "done" => (i_f # "open" /\ o_f # "open")

\* a run that showed its progress has returned 1 on a row without mmsi: it had
\* acquired the input twice and the output once, and both are closed
C15_Witness ==
  /\ pc = "done" /\ result = "return 1" /\ lines_read >= 2
  /\ "mmsi" \notin DOMAIN Last(consumed)
  /\ opens = [input |-> 2, output |-> 1]
  /\ i_f = "closed" /\ o_f = "closed"

\* the numbers of the input's lines the reader has taken as its schema, and of
\* those it has handed to the loop as records
SchemaLineNos == IF reader = None THEN {} ELSE 1..ReaderStart
RecordLineNos == IF reader = None THEN {} ELSE (ReaderStart + 1)..lines_read

\* C16: with skip-lines N the first N lines of the input are skipped: none of
\* them is taken as the schema, none is evaluated as a record, and so none
\* can be flagged.
C16_SkippedLinesNeverRead ==
  (SchemaLineNos \cup RecordLineNos) \cap (1..skip_lines) = {}

\* C17: for tabular input with an explicit schema the field names of every
\* record are the names of that schema in their order and the first line of
\* the input is a data record; without one the first line is consumed as the
\* schema and is never evaluated as a record.
C17_SchemaNamesTheFields ==
  (reader = "csv" /\ file_lines >= 1) =>
    /\ fieldnames = <<SchemaNames>>
    /\ \A i \in 1..Len(consumed) : DOMAIN consumed[i] = Range(SchemaNames)
    /\ IF input_schema # <<>>
         THEN SchemaLineNos = {} /\ Len(consumed) = lines_read
         ELSE SchemaLineNos = {1} /\ Len(consumed) = lines_read - 1

\* the lines of the output file that existed before the run
OldContent == <<CsvLine(<<"old">>)>>

\* C18: an existing output file is only overwritten if -overwrite is given:
\* when the output path names an existing file and overwrite is not set, main
\* returns 1 without opening the file and its lines are what they were,
\* whatever the write mode.
C18_ExistingOutputKept ==
  (output_file = "/out.csv" /\ out_isfile /\ ~overwrite_mode) =>
    /\ disk = OldContent /\ out = <<>> /\ o_f = "unopened"
    /\ pc # "validate" => (pc = "done" /\ result = "return 1")

\* main has returned 1 on an otherwise valid command line that asks to append
\* to an existing, writable output file without -overwrite
C18_Witness ==
  /\ pc = "done" /\ result = "return 1"
  /\ output_file = "/out.csv" /\ out_isfile /\ out_writable /\ ~overwrite_mode
  /\ write_mode = "a" /\ ~arg_error /\ assign_srs_from_cmdl = "EPSG:4326"
  /\ time_threshold >= 0 /\ distance_threshold >= 0
  /\ output_product = "csv" /\ input_file_format = "csv"
  /\ input_file = "/in.csv" /\ in_readable
  /\ disk = OldContent /\ o_f = "unopened"

\* C19: as the help text says, of two consecutive points of one vessel the
\* later is taken as discontinuous exactly when their timestamps differ by
\* more than the time threshold and their distance is greater than the
\* distance threshold.
C19_FlaggedAsDocumented ==
  [][(/\ ReadsRecord /\ consumed # <<>>
      /\ HasRequiredFields(Last(consumed)) /\ HasRequiredFields(Last(consumed'))
      /\ Last(consumed)["mmsi"] = Last(consumed')["mmsi"])
     => IF /\ TimeGap(Last(consumed), Last(consumed')) > time_threshold
           /\ Distance2(Last(consumed), Last(consumed')) >
                distance_threshold * distance_threshold
          THEN EmitsOne(Last(consumed'))
          ELSE EmitsNothing]_vars

\* the calls made on the given scraper, and the calls that returned a result
CallsOf(name) == {i \in 1..Len(calls) : calls[i].scraper = name}
ResultCalls == {i \in 1..Len(calls) : calls[i].outcome = "result"}

\* C20: auto_scrape calls each scraper at most retry times; once a call has
\* returned a result that is not None no further call is made, on that scraper
\* or on a later one, and auto_scrape returns that result; it returns None
\* only if every call it made returned None or raised.
C20_FirstResultEndsTheScrape ==
  /\ \A name \in Range(scraper_order) : Cardinality(CallsOf(name)) <= retry
  /\ ResultCalls \subseteq {Len(calls)}
  /\ scrape_pc = "returned" =>
       IF ResultCalls # {}
         THEN scrape_result = Info(Last(calls).scraper, Last(calls).attempt)
         ELSE scrape_result = None

\* auto_scrape has returned the result of the first attempt on the second
\* scraper, after the first scraper returned None and then raised
C20_Witness ==
  /\ scrape_pc = "returned" /\ retry = 2 /\ Len(calls) = 3
  /\ calls[1] = [scraper |-> "marine_traffic", attempt |-> 1, outcome |-> "None"]
  /\ calls[2] = [scraper |-> "marine_traffic", attempt |-> 2, outcome |-> "raise"]
  /\ calls[3] = [scraper |-> "vessel_finder", attempt |-> 1, outcome |-> "result"]
  /\ scrape_result = Info("vessel_finder", 1)

\* the calls that raised, in the order they were made
RECURSIVE RaisedCalls(_)
RaisedCalls(n) ==
  IF n = 0 THEN <<>>
  ELSE RaisedCalls(n - 1)
       \o (IF calls[n].outcome \in {"raise", "interrupt"} THEN <<calls[n]>> ELSE <<>>)

\* C21: every exception a scraper call raises is caught and reported by one
\* write to the stream and never leaves auto_scrape; the write for the attempt
\* whose number equals retry, and no other, has the FAILED marker; a call that
\* raised uses up one attempt, as one that returned None does.
C21_ExceptionsCaughtAndReported ==
  LET raised == RaisedCalls(Len(calls))
  IN /\ scrape_pc # "raised"
     /\ Len(stream) = Len(raised)
     /\ \A k \in 1..Len(stream) :
          /\ stream[k].scraper = raised[k].scraper
          /\ stream[k].attempt = raised[k].attempt
          /\ stream[k].failed <=> (stream[k].attempt = retry)
     /\ \A i \in 1..Len(calls) :
          calls[i].attempt =
            Cardinality({j \in 1..i : calls[j].scraper = calls[i].scraper})

\* C22: a scraper named in skip_scraper is never called, and with keep_scraper
\* given only the scrapers it names are called, whichever of the two options
\* are supplied, both together included.
C22_SkipAndKeepObeyed ==
  \A i \in 1..Len(calls) :
    /\ skip_scraper # <<>> => calls[i].scraper \notin Range(skip_scraper[1])
    /\ keep_scraper # <<>> => calls[i].scraper \in Range(keep_scraper[1])

\* C23: when a record is read the scanner's last row is the record read just
\* before it, and none before the first; after the record is processed the
\* last row is that record, flagged or not, group boundary or not; whatever
\* the step emits was decided against the record read just before.
C23_LastRowIsPreviousRecord ==
  [][ReadsRecord =>
       /\ last_row = (IF consumed = <<>> THEN <<>> ELSE <<Last(consumed)>>)
       /\ pc' = "scan" => last_row' = <<Last(consumed')>>
       /\ EmitsNothing
          \/ /\ consumed # <<>>
             /\ Last(consumed)["mmsi"] = Last(consumed')["mmsi"]
             /\ Discontinuous(<<Last(consumed)>>, Last(consumed'))]_vars

\* three records have been processed, the second flagged against the first,
\* the third of another vessel: the last row is the third
C23_Witness ==
  /\ pc = "scan" /\ Len(consumed) = 3 /\ columns = FullLayout
  /\ consumed[1]["mmsi"] = consumed[2]["mmsi"]
  /\ consumed[2]["mmsi"] # consumed[3]["mmsi"]
  /\ Discontinuous(<<consumed[1]>>, consumed[2])
  /\ NumEvents = 1
  /\ last_row = <<consumed[3]>>

\* the line of a row product that holds the given input record
LineOf(row) ==
  IF output_product = "newline" THEN JsonLine(row) ELSE ValuesOf(row, fieldnames[1])

\* a[i..] is b[j..] with some of its elements left out
RECURSIVE IsSubsequence(_, _, _, _)
IsSubsequence(a, i, b, j) ==
  IF i > Len(a) THEN TRUE
  ELSE IF j > Len(b) THEN FALSE
  ELSE IF a[i] = b[j] THEN IsSubsequence(a, i + 1, b, j + 1)
  ELSE IsSubsequence(a, i, b, j + 1)

\* C24: an input record produces no event or one, so there are never more
\* events than records read, and none for the first; in the row products the
\* rows written are a subsequence of the input records in input order: no
\* record twice, no row that is not in the input, no two rows out of order.
C24_RowsAreSubsequenceOfInput ==
  output_product \in valid_output_products =>
    /\ NumEvents <= (IF consumed = <<>> THEN 0 ELSE Len(consumed) - 1)
    /\ output_product # "frequency" =>
         IsSubsequence(DataRowsOut, 1,
                       [i \in 1..Len(consumed) |-> LineOf(consumed[i])], 2)

\* of three records read the row product has written the third and not the
\* second, which differs from it
C24_Witness ==
  /\ pc = "scan" /\ output_product \in {"csv", "newline"} /\ Len(consumed) = 3
  /\ consumed[2] # consumed[3]
  /\ DataRowsOut = <<LineOf(consumed[3])>>

\* the flags that ask for the help, the usage or the long usage
HelpFlags ==
  {"--help", "-help", "--usage", "-usage", "--long-usage", "-long-usage", "-lu"}

\* the messages of the validation
ValidationTexts ==
  {"ERROR: Did not successfully parse arguments", "Invalid assign SRS",
   "ERROR: Invalid time threshold", "ERROR: Invalid distance threshold",
   "ERROR: Invalid output product", "ERROR: Invalid input file format",
   "ERROR: input file", "ERROR: output file"}

\* nothing has been validated, opened, read or written
NothingProcessed ==
  /\ Range(stdout) \cap ValidationTexts = {}
  /\ i_f = "unopened" /\ o_f = "unopened" /\ opens = [input |-> 0, output |-> 0]
  /\ lines_read = 0 /\ consumed = <<>> /\ prog_total = 0
  /\ out = <<>> /\ disk = <<>> /\ ~stdin_closed

\* C25: an empty argument list, and a help, usage or long-usage flag that the
\* argument loop reaches, whatever the arguments around it, make main return 1
\* at once: nothing is validated, opened, read or written
C25_HelpReturnsOne ==
  [][(\/ pc = "main" /\ Len(args) = 0
      \/ pc = "parse" /\ args[arg_i + 1] \in HelpFlags)
     => (pc' = "done" /\ result' = "return 1" /\ NothingProcessed')]_vars

\* a command line that would run the detector, with a help flag at its end,
\* has returned 1 from the loop
C25_Witness ==
  /\ args = <<"/in.csv", "/out.csv", "--help">> /\ arg_i = 2
  /\ input_file = "/in.csv" /\ output_file = "/out.csv" /\ ~arg_error
  /\ pc = "done" /\ result = "return 1" /\ NothingProcessed

\* the flags that take a parameter, and those whose parameter is an integer
ParameterFlags ==
  {"-th", "-time-threshold", "-dh", "-distance-threshold", "-s", "-schema",
   "-header", "-sl", "-skip-lines", "-a-srs", "-assign-srs", "-wm", "-write-mode",
   "-op", "-output-product", "-ff", "-file-format"}
IntegerFlags ==
  {"-th", "-time-threshold", "-dh", "-distance-threshold", "-sl", "-skip-lines"}

\* the argument the loop looks at is a flag without its parameter, or a flag
\* whose parameter is no integer where one is required
BadParameter ==
  /\ args[arg_i + 1] \in ParameterFlags
  /\ IF arg_i + 2 > Len(args) THEN TRUE
     ELSE args[arg_i + 1] \in IntegerFlags /\ args[arg_i + 2] \notin DOMAIN Number

\* C29: the argument loop terminates: every iteration either returns 1 from
\* main or strictly increases the index, the iteration that ends in the
\* handler and the one on an empty argument included, and the loop goes on
\* only while the index is below the number of arguments; a flag that lacks
\* its parameter or has a non-integer one sets arg_error, which is never
\* reset and makes main return 1
C29_ArgumentLoopTerminates ==
  [][/\ pc = "parse"
        => \/ pc' = "done" /\ result' = "return 1"
           \/ /\ arg_i' > arg_i
              /\ pc' = IF arg_i' < Len(args) THEN "parse" ELSE "validate"
     /\ (pc = "parse" /\ BadParameter) => arg_error'
     /\ arg_error => /\ arg_error'
                     /\ pc' \in {"parse", "validate", "done"}
                     /\ pc' = "done" => result' = "return 1"]_vars

\* an empty argument, a file name and a flag without its parameter have been
\* gone through, the index is past the end and main has returned 1
C29_Witness ==
  /\ args = <<"", "/in.csv", "-th">> /\ arg_i = 5 /\ arg_error
  /\ input_file = "/in.csv" /\ time_threshold = 3600
  /\ pc = "done" /\ result = "return 1"

\* C26: auto_scrape goes through the scrapers in the order marine_traffic,
\* vessel_finder: no call of the first follows a call of the second, and an
\* attempt on the second is begun only when the first was skipped or all its
\* retry attempts ended without a result that is not None; every call is
\* preceded by a pause of its own, the first call on each scraper included
C26_FixedOrderPauseBeforeEachAttempt ==
  LET first == CallsOf("marine_traffic")
      second == CallsOf("vessel_finder")
  IN /\ \A i \in first, j \in second : i < j
     /\ (second # {} \/ (scraper_i = 2 /\ scrape_pc \in {"attempt", "call"}))
          => \/ first = {} /\ ~do_scrape("marine_traffic")
             \/ Cardinality(first) = retry /\ first \cap ResultCalls = {}
     /\ Len(slept) = Len(calls) + (IF scrape_pc = "call" THEN 1 ELSE 0)

\* both attempts on marine_traffic returned None, the pause before the first
\* attempt on vessel_finder has been taken and its call is about to be made
C26_Witness ==
  /\ retry = 2 /\ scrape_pc = "call" /\ scraper_i = 2 /\ attempt_num = 1
  /\ Len(calls) = 2 /\ Len(slept) = 3
  /\ \A i \in 1..2 : calls[i].scraper = "marine_traffic" /\ calls[i].outcome = "None"

\* some vessel's rows are not contiguous in the input read so far
NonContiguous ==
  \E i, j, k \in 1..Len(consumed) :
    /\ i < j /\ j < k
    /\ consumed[i]["mmsi"] = consumed[k]["mmsi"]
    /\ consumed[j]["mmsi"] # consumed[i]["mmsi"]

\* the rows of vessel m that follow a row of the same vessel and pass both
\* tests against it
EventsOf(m) ==
  {i \in 2..Len(consumed) :
     /\ consumed[i]["mmsi"] = m /\ consumed[i - 1]["mmsi"] = m
     /\ Discontinuous(<<consumed[i - 1]>>, consumed[i])}

\* C27: on an input in which the rows of a vessel are not contiguous the run
\* does not fail; a row is compared with the row before it only when both are
\* of the same vessel, so every change of mmsi starts a group; the frequency
\* product counts the events of all the runs of a vessel in one number, and
\* writes at most one line per vessel, which carries that number
C27_SeparatedSegmentsAccumulate ==
  NonContiguous =>
    /\ result \in {"running", "return 0"}
    /\ IF output_product = "frequency"
         THEN /\ \A m \in MMSIs : CountFor(m) = Cardinality(EventsOf(m))
              /\ pc = "done" =>
                   \A m \in MMSIs :
                     LET written == {k \in 2..Len(out) : out[k].cells[1] = m}
                     IN /\ Cardinality(written) = (IF EventsOf(m) = {} THEN 0 ELSE 1)
                        /\ \A k \in written :
                             out[k].cells[2] = ToString(Cardinality(EventsOf(m)))
         ELSE Len(DataRowsOut) = Cardinality(UNION {EventsOf(m) : m \in MMSIs})

\* two runs of vessel 111 with one event each, a row of vessel 222 between
\* them: the frequency product has written the one line '111,2'
C27_Witness ==
  /\ pc = "done" /\ result = "return 0" /\ output_product = "frequency"
  /\ Len(consumed) = 5
  /\ \A i \in {1, 2, 4, 5} : consumed[i]["mmsi"] = "111"
  /\ consumed[3]["mmsi"] = "222"
  /\ EventsOf("111") = {2, 5}
  /\ out = <<CsvLine(<<"mmsi", "count">>), CsvLine(<<"111", "2">>)>>

\* C28: when the output is the standard output quiet mode is on once the data
\* is prepared, and from the opening of the output until main returns no
\* step, the abort on a row without mmsi included, prints anything: the
\* standard output receives the product through o_f and nothing else
C28_OnlyProductOnStdout ==
  [][(output_file = "-" /\ pc \in {"open", "scan"})
       => (quiet_mode /\ stdout' = stdout)]_vars

====
